---------------------------- MODULE Spec2Model ----------------------------
(***************************************************************************)
(* Model of src/main.py: the Sber Branches API.                            *)
(*                                                                         *)
(* The record store is the PostgreSQL database the module connects to      *)
(* (DATABASE_URL, line 11).  Its tables are declared by the SQLAlchemy     *)
(* classes of lines 19-73; the declarations carry a UNIQUE constraint on   *)
(* branches.internal_code and FOREIGN KEY constraints on the *_id columns, *)
(* which the database enforces at INSERT / UPDATE time by raising an       *)
(* IntegrityError.  No handler catches that error, so the framework turns  *)
(* it into an HTTP 500 response and the session is rolled back.            *)
(*                                                                         *)
(* Strings of the free-text query are sequences of Unicode code points.    *)
(***************************************************************************)
EXTENDS Integers, Sequences, FiniteSets, Bags, TLC

VARIABLES
    object_types,        \* table "object_types": the ids of its rows
    branches,            \* table "branches": set of rows
    branch_objects,      \* table "branch_objects"
    maintenance_plans,   \* table "maintenance_plans"
    completed_works,     \* table "completed_works"
    seq,                 \* next value of each table's id sequence
    sess,                \* per database session: position of the handler using it
    resp                 \* the last response sent to a client

vars == <<object_types, branches, branch_objects, maintenance_plans,
          completed_works, seq, sess, resp>>

store == <<object_types, branches, branch_objects, maintenance_plans,
           completed_works, seq>>

---------------------------------------------------------------------------
(* Bounds of the model. *)

MaxBranchId == 2      \* branch ids handed out by the sequence: 1..MaxBranchId
MaxObjectId == 2
MaxPlanId   == 1
MaxWorkId   == 1
NumSessions == 2      \* concurrently open database sessions
MaxPieces   == 3      \* a query is the concatenation of at most MaxPieces pieces

Sessions == 1..NumSessions

NoneId == 0           \* Python None in an Optional[int] column (SQL NULL)

---------------------------------------------------------------------------
(* Request payloads (the pydantic models, lines 87-116). *)

BranchFields == {"address", "internal_code", "latitude", "longitude"}

\* BranchCreate: four str fields.  "" is the one falsy str.
BranchCreate ==
    [address : {"", "a"}, internal_code : {"", "K1", "K2"},
     latitude : {"", "x"}, longitude : {"y"}]

\* The payloads used where only the internal code matters.
BranchCreateByCode ==
    [address : {"a"}, internal_code : {"K1", "K2"},
     latitude : {"x"}, longitude : {"y"}]

---------------------------------------------------------------------------
(* The store: constraints enforced by the database. *)

\* Column(String, unique=True) on branches.internal_code: TRUE iff a row
\* `row` may be stored next to the rows `rows` (those with another id).
UniqueInternalCodeNoCheck(rows, row) == TRUE

UniqueInternalCode(rows, row) ==
    \A r \in rows : r.id # row.id => r.internal_code # row.internal_code

\* ForeignKey("<table>.id"): a NULL reference is always accepted.
ForeignKeyNoCheck(rows, ref) == TRUE

ForeignKey(rows, ref) ==
    ref = NoneId \/ \E r \in rows : r.id = ref

\* The fields of a stored branch that BranchCreate serialises.
BranchBody(row) == [f \in BranchFields |-> row[f]]

---------------------------------------------------------------------------
(* Responses. *)

\* `fetch` logs the read handler that the request called: <<table, id>>.
Resp(op, s, status, arg, body) ==
    [op |-> op, session |-> s, status |-> status, arg |-> arg, body |-> body,
     fetch |-> <<>>]

NoBody == [detail |-> "error"]

IdleSess == [pc |-> "idle"]

---------------------------------------------------------------------------
(* create_branch, lines 129-150. *)

\* line 132: db.query(Branch).filter(internal_code == ...).first()
ExistingNever(code) == FALSE

Existing(code) == \E r \in branches : r.internal_code = code

\* lines 139-142: INSERT + COMMIT.  The id is drawn from the sequence before
\* the constraints are checked, so a rejected INSERT still consumes it.
InsertBranch(s, b) ==
    LET row == [id |-> seq.branches, address |-> b.address,
                internal_code |-> b.internal_code,
                latitude |-> b.latitude, longitude |-> b.longitude]
    IN  /\ seq.branches <= MaxBranchId
        /\ seq' = [seq EXCEPT !.branches = @ + 1]
        /\ IF UniqueInternalCode(branches, row)
           THEN /\ branches' = branches \cup {row}
                /\ resp' = Resp("create_branch", s, 200, b, BranchBody(row))
           ELSE /\ branches' = branches
                /\ resp' = Resp("create_branch", s, 500, b, NoBody)
        /\ UNCHANGED <<object_types, branch_objects, maintenance_plans, completed_works>>

\* The whole handler, run without another request in between.
CreateBranchOf(s, b) ==
    IF Existing(b.internal_code)
    THEN /\ resp' = Resp("create_branch", s, 400, b, NoBody)
         /\ UNCHANGED <<store, sess>>
    ELSE /\ InsertBranch(s, b)
         /\ UNCHANGED sess

CreateBranch == \E b \in BranchCreate : CreateBranchOf(1, b)

---------------------------------------------------------------------------
(* update_branch, lines 153-162. *)

\* lines 158-159: setattr for every field whose value is truthy.  The unit
\* of work then writes the columns whose value differs from the loaded one.
ChangedColsAll(loaded, b) == {f \in BranchFields : b[f] # loaded[f]}

ChangedCols(loaded, b) ==
    {f \in BranchFields : b[f] # "" /\ b[f] # loaded[f]}

\* lines 160-162: UPDATE ... WHERE id = loaded.id, COMMIT, refresh.
WriteBranch(s, id, loaded, b) ==
    LET cur  == CHOOSE r \in branches : r.id = loaded.id
        cols == ChangedCols(loaded, b)
        new  == [f \in DOMAIN cur |-> IF f \in cols THEN b[f] ELSE cur[f]]
    IN  IF UniqueInternalCode(branches, new)
        THEN /\ branches' = (branches \ {cur}) \cup {new}
             /\ resp' = Resp("update_branch", s, 200, <<id, b>>, BranchBody(new))
        ELSE /\ branches' = branches
             /\ resp' = Resp("update_branch", s, 500, <<id, b>>, NoBody)

UpdateBranchOf(s, id, b) ==
    IF \E r \in branches : r.id = id
    THEN /\ WriteBranch(s, id, CHOOSE r \in branches : r.id = id, b)
         /\ UNCHANGED <<object_types, branch_objects, maintenance_plans,
                        completed_works, seq, sess>>
    ELSE /\ resp' = Resp("update_branch", s, 404, <<id, b>>, NoBody)
         /\ UNCHANGED <<store, sess>>

UpdateBranch ==
    \E id \in 1..MaxBranchId + 1, b \in BranchCreate : UpdateBranchOf(1, id, b)

---------------------------------------------------------------------------
(* Initial state: the tables as Base.metadata.create_all (line 76) leaves  *)
(* them.  No endpoint writes object_types: its rows are reference data     *)
(* that is either absent or was loaded into the database beforehand.       *)

Init ==
    /\ object_types \in {{}, {1}}
    /\ branches = {}
    /\ branch_objects = {}
    /\ maintenance_plans = {}
    /\ completed_works = {}
    /\ seq = [branches |-> 1, branch_objects |-> 1,
              maintenance_plans |-> 1, completed_works |-> 1]
    /\ sess = [s \in Sessions |-> IdleSess]
    /\ resp = Resp("none", 0, 0, NoBody, NoBody)

\* The branch endpoints, one request at a time.
NextBranch == CreateBranch \/ UpdateBranch

SpecBranch == Init /\ [][NextBranch]_vars

---------------------------------------------------------------------------
(* The branch endpoints under concurrent requests.  Every request has its  *)
(* own session (get_db, lines 120-125); its SELECT sees the rows committed *)
(* so far, and its INSERT/UPDATE + COMMIT is applied atomically by the     *)
(* database.                                                               *)

\* create_branch up to the existence check (lines 132-137).
BeginCreateBranch(s, b) ==
    /\ sess[s].pc = "idle"
    /\ IF Existing(b.internal_code)
       THEN /\ resp' = Resp("create_branch", s, 400, b, NoBody)
            /\ UNCHANGED <<store, sess>>
       ELSE /\ sess' = [sess EXCEPT ![s] = [pc |-> "create_checked", req |-> b]]
            /\ UNCHANGED <<store, resp>>

\* create_branch from db.add to the return (lines 139-150).
CommitCreateBranch(s) ==
    /\ sess[s].pc = "create_checked"
    /\ InsertBranch(s, sess[s].req)
    /\ sess' = [sess EXCEPT ![s] = IdleSess]

\* update_branch up to the 404 check (lines 155-157).
BeginUpdateBranch(s, id, b) ==
    /\ sess[s].pc = "idle"
    /\ IF \E r \in branches : r.id = id
       THEN /\ sess' = [sess EXCEPT ![s] =
                          [pc |-> "update_loaded", req |-> b, id |-> id,
                           loaded |-> CHOOSE r \in branches : r.id = id]]
            /\ UNCHANGED <<store, resp>>
       ELSE /\ resp' = Resp("update_branch", s, 404, <<id, b>>, NoBody)
            /\ UNCHANGED <<store, sess>>

\* update_branch from the setattr loop to the return (lines 158-162).
CommitUpdateBranch(s) ==
    /\ sess[s].pc = "update_loaded"
    /\ WriteBranch(s, sess[s].id, sess[s].loaded, sess[s].req)
    /\ sess' = [sess EXCEPT ![s] = IdleSess]
    /\ UNCHANGED <<object_types, branch_objects, maintenance_plans,
                   completed_works, seq>>

NextConc ==
    \/ \E s \in Sessions, b \in BranchCreateByCode : BeginCreateBranch(s, b)
    \/ \E s \in Sessions : CommitCreateBranch(s)
    \/ \E s \in Sessions, id \in 1..MaxBranchId + 1, b \in BranchCreateByCode :
          BeginUpdateBranch(s, id, b)
    \/ \E s \in Sessions : CommitUpdateBranch(s)

SpecConc == Init /\ [][NextConc]_vars

---------------------------------------------------------------------------
(* create_object, create_maintenance_plan, create_completed_work           *)
(* (lines 165-189): INSERT + COMMIT of the submitted fields, no check in   *)
(* the handler.  The database checks the foreign keys of the new row.      *)

\* ObjectCreate (lines 94-99).
ObjectCreate ==
    [branch_id : {1, 2}, object_type_id : {1}, name : {"lawn"},
     area : {"10"}, description : {"front"}]

\* MaintenancePlanCreate (lines 102-107); the date is a day number.
MaintenancePlanCreate ==
    [branch_id : {1, 2}, object_id : {NoneId, 1}, work_type : {"mow"},
     frequency : {"weekly"}, next_maintenance_date : {20}]

\* CompletedWorkCreate (lines 110-116).
CompletedWorkCreate ==
    [branch_id : {1, 2}, object_id : {NoneId, 1}, work_type : {"mow"},
     completion_date : {10}, responsible_person : {"ivanov"}, notes : {"ok"}]

\* A table row: the submitted fields plus the id drawn from the sequence.
WithId(id, fields) ==
    [f \in DOMAIN fields \cup {"id"} |-> IF f = "id" THEN id ELSE fields[f]]

\* The submitted fields of a stored row.
WithoutId(row) == [f \in DOMAIN row \ {"id"} |-> row[f]]

\* lines 35-42: the foreign keys of a branch_objects row.
ObjectRefsOk(o) ==
    /\ ForeignKey(branches, o.branch_id)
    /\ \/ o.object_type_id = NoneId
       \/ o.object_type_id \in object_types

\* lines 45-63: the foreign keys of a maintenance_plans / completed_works row.
WorkRefsBranchOnly(w) == ForeignKey(branches, w.branch_id)

WorkRefsOk(w) ==
    /\ ForeignKey(branches, w.branch_id)
    /\ ForeignKey(branch_objects, w.object_id)

CreateObjectOf(s, o) ==
    /\ seq.branch_objects <= MaxObjectId
    /\ seq' = [seq EXCEPT !.branch_objects = @ + 1]
    /\ IF ObjectRefsOk(o)
       THEN /\ branch_objects' = branch_objects \cup {WithId(seq.branch_objects, o)}
            /\ resp' = Resp("create_object", s, 200, o, o)
       ELSE /\ branch_objects' = branch_objects
            /\ resp' = Resp("create_object", s, 500, o, NoBody)
    /\ UNCHANGED <<object_types, branches, maintenance_plans, completed_works, sess>>

CreateMaintenancePlanOf(s, p) ==
    /\ seq.maintenance_plans <= MaxPlanId
    /\ seq' = [seq EXCEPT !.maintenance_plans = @ + 1]
    /\ IF WorkRefsOk(p)
       THEN /\ maintenance_plans' =
                  maintenance_plans \cup {WithId(seq.maintenance_plans, p)}
            /\ resp' = Resp("create_maintenance_plan", s, 200, p, p)
       ELSE /\ maintenance_plans' = maintenance_plans
            /\ resp' = Resp("create_maintenance_plan", s, 500, p, NoBody)
    /\ UNCHANGED <<object_types, branches, branch_objects, completed_works, sess>>

CreateCompletedWorkOf(s, w) ==
    /\ seq.completed_works <= MaxWorkId
    /\ seq' = [seq EXCEPT !.completed_works = @ + 1]
    /\ IF WorkRefsOk(w)
       THEN /\ completed_works' =
                  completed_works \cup {WithId(seq.completed_works, w)}
            /\ resp' = Resp("create_completed_work", s, 200, w, w)
       ELSE /\ completed_works' = completed_works
            /\ resp' = Resp("create_completed_work", s, 500, w, NoBody)
    /\ UNCHANGED <<object_types, branches, branch_objects, maintenance_plans, sess>>

CreateObject == \E o \in ObjectCreate : CreateObjectOf(1, o)

CreateMaintenancePlan ==
    \E p \in MaintenancePlanCreate : CreateMaintenancePlanOf(1, p)

CreateCompletedWork ==
    \E w \in CompletedWorkCreate : CreateCompletedWorkOf(1, w)

\* create_branch with the payloads that differ in the internal code.
CreateBranchByCode == \E b \in BranchCreateByCode : CreateBranchOf(1, b)

\* The create endpoints, one request at a time.
Next == CreateBranchByCode \/ CreateObject \/ CreateMaintenancePlan \/ CreateCompletedWork

Spec == Init /\ [][Next]_vars

---------------------------------------------------------------------------
(* process_nlp_query, lines 297-334.  A str is a sequence of code points.  *)

KwPlaniruetsya == <<1087, 1083, 1072, 1085, 1080, 1088, 1091, 1077, 1090, 1089, 1103>>
KwPlany        == <<1087, 1083, 1072, 1085, 1099>>
KwVypolneno    == <<1074, 1099, 1087, 1086, 1083, 1085, 1077, 1085, 1086>>
KwSdelano      == <<1089, 1076, 1077, 1083, 1072, 1085, 1086>>

\* The pieces queries are made of:
\*   "планы", " Планируется", "выполнено", "Сделано", "план" (no keyword),
\*   " филиал " (no keyword), "1", "2", and "²" (SUPERSCRIPT TWO, as in "м²").
Pieces ==
    { KwPlany,
      <<32, 1055>> \o Tail(KwPlaniruetsya),
      KwVypolneno,
      <<1057>> \o Tail(KwSdelano),
      <<1087, 1083, 1072, 1085>>,
      <<32, 1092, 1080, 1083, 1080, 1072, 1083, 32>>,
      <<49>>, <<50>>, <<178>> }

RECURSIVE QueriesOf(_)
QueriesOf(n) ==
    IF n = 0 THEN {<<>>}
    ELSE LET shorter == QueriesOf(n - 1)
         IN  shorter \cup {q \o p : q \in shorter, p \in Pieces}

Queries == QueriesOf(MaxPieces)

\* str.lower() on one character: Latin and Cyrillic capitals.
LowerChar(c) ==
    IF c \in 65..90 \/ c \in 1040..1071 THEN c + 32
    ELSE IF c \in 1024..1039 THEN c + 80
    ELSE c

Lower(q) == [i \in DOMAIN q |-> LowerChar(q[i])]

\* `sub in s` for two str.
Contains(sub, s) ==
    \E i \in 0..(Len(s) - Len(sub)) : \A j \in 1..Len(sub) : s[i + j] = sub[j]

\* str.isdigit(): the decimal digits, and the characters that are digits
\* without being decimal (superscripts two, three and one).
IsDigitOrLetter(c) == c >= 48

IsDigit(c) == c \in 48..57 \/ c \in {178, 179, 185}

\* "".join([c for c in query if c.isdigit()]), lines 300 and 316.
RECURSIVE FirstDigitRun(_)
FirstDigitRun(q) ==
    IF q = <<>> THEN <<>>
    ELSE IF IsDigit(Head(q))
         THEN IF Len(q) > 1 /\ IsDigit(q[2])
              THEN <<Head(q)>> \o FirstDigitRun(Tail(q))
              ELSE <<Head(q)>>
         ELSE FirstDigitRun(Tail(q))

DigitsOf(q) == SelectSeq(q, IsDigit)

\* int(branch_code) raises ValueError unless every character is decimal.
IntRaises(code) == \E i \in DOMAIN code : code[i] \notin 48..57

RECURSIVE IntOf(_)
IntOf(code) ==
    IF code = <<>> THEN 0
    ELSE 10 * IntOf(SubSeq(code, 1, Len(code) - 1)) + (code[Len(code)] - 48)

\* The list of dicts a read handler returns, as a bag: the rows of `rows`
\* whose branch_id is `id`, each without its id (lines 253-280).
RowsOfBranch(rows, id) ==
    LET sel   == {r \in rows : r.branch_id = id}
        dicts == {WithoutId(r) : r \in sel}
    IN  [d \in dicts |-> Cardinality({r \in sel : WithoutId(r) = d})]

get_branch_plans(id) == RowsOfBranch(maintenance_plans, id)

get_branch_completed_works(id) == RowsOfBranch(completed_works, id)

\* The response of a request whose handler returns `body`.
NlpResp(s, q, up, status, body, fetch) ==
    [op |-> "nlp_query", session |-> s, status |-> status,
     arg |-> [query |-> q, store_up |-> up], body |-> body, fetch |-> fetch]

\* lines 309-313 and 325-329: except Exception -> the "error" payload.
Propagated(s, q, up, what, fetch) ==
    NlpResp(s, q, up, 500, NoBody, fetch)

Caught(s, q, up, what, fetch) ==
    NlpResp(s, q, up, 200, [status |-> "error", message |-> <<what, "exception">>], fetch)

\* lines 331-334.
NotFound(s, q, up) ==
    NlpResp(s, q, up, 200,
            [status |-> "not_found", message |-> <<"not processed">>], <<>>)

\* lines 300-313 / 316-329: one intent branch.  `up` is FALSE when the
\* store fails the read (the fetch raises).
Dispatch(s, q, up, table, what) ==
    LET branch_code == DigitsOf(q)
    IN  IF branch_code = <<>> THEN NotFound(s, q, up)
        ELSE IF IntRaises(branch_code) THEN Caught(s, q, up, what, <<>>)
        ELSE LET fetch == <<table, IntOf(branch_code)>>
             IN  IF ~up THEN Caught(s, q, up, what, fetch)
                 ELSE NlpResp(s, q, up, 200,
                              [status |-> "success",
                               data |-> IF table = "maintenance_plans"
                                        THEN get_branch_plans(fetch[2])
                                        ELSE get_branch_completed_works(fetch[2]),
                               message |-> <<what, branch_code>>], fetch)

IsPlanQuery(q) ==
    Contains(KwPlaniruetsya, Lower(q)) \/ Contains(KwPlany, Lower(q))

IsCompletedQuery(q) ==
    Contains(KwVypolneno, Lower(q)) \/ Contains(KwSdelano, Lower(q))

ProcessNlpQuery(s, up) ==
    /\ sess[s].pc = "nlp_query"
    /\ LET q == sess[s].query
       IN  resp' =
             IF IsPlanQuery(q)
             THEN Dispatch(s, q, up, "maintenance_plans", "plans")
             ELSE IF IsCompletedQuery(q)
             THEN Dispatch(s, q, up, "completed_works", "works")
             ELSE NotFound(s, q, up)
    /\ sess' = [sess EXCEPT ![s] = IdleSess]
    /\ UNCHANGED store

\* The stores the query endpoint is run on: two branches, and any of these
\* plans and completed works (plans 1 and 3 have the same fields).
PlanOf(b) ==
    [branch_id |-> b, object_id |-> NoneId, work_type |-> "mow",
     frequency |-> "weekly", next_maintenance_date |-> 20]

WorkOf(b) ==
    [branch_id |-> b, object_id |-> NoneId, work_type |-> "mow",
     completion_date |-> 10, responsible_person |-> "ivanov", notes |-> "ok"]

InitNlp ==
    /\ object_types = {}
    /\ branches = {WithId(1, [address |-> "a", internal_code |-> "K1",
                              latitude |-> "x", longitude |-> "y"]),
                   WithId(2, [address |-> "a", internal_code |-> "K2",
                              latitude |-> "x", longitude |-> "y"])}
    /\ branch_objects = {}
    /\ maintenance_plans \in
          SUBSET {WithId(1, PlanOf(1)), WithId(2, PlanOf(2)), WithId(3, PlanOf(1))}
    /\ completed_works \in SUBSET {WithId(1, WorkOf(1)), WithId(2, WorkOf(2))}
    /\ seq = [branches |-> 3, branch_objects |-> 1,
              maintenance_plans |-> 4, completed_works |-> 3]
    /\ \E q \in Queries :
          sess = [s \in Sessions |->
                    IF s = 1 THEN [pc |-> "nlp_query", query |-> q] ELSE IdleSess]
    /\ resp = Resp("none", 0, 0, NoBody, NoBody)

NextNlp == \E s \in Sessions, up \in BOOLEAN : ProcessNlpQuery(s, up)

SpecNlp == InitNlp /\ [][NextNlp]_vars

---------------------------------------------------------------------------
(* Properties of the branch endpoints. *)

BranchWithId(rows, id) == CHOOSE r \in rows : r.id = id

\* C5: in every reachable state, under any interleaving of create_branch and
\* update_branch requests, no two stored branches have the same internal
\* code.
C5_InternalCodeUnique ==
    \A r1 \in branches : \A r2 \in branches :
        r1.id # r2.id => r1.internal_code # r2.internal_code

\* C5 witness: an update_branch request asked for an internal code that
\* another stored branch holds, and two branches are stored.
C5_Witness ==
    /\ resp.op = "update_branch"
    /\ Cardinality(branches) = 2
    /\ \E r \in branches :
          /\ r.id # resp.arg[1]
          /\ r.internal_code = resp.arg[2].internal_code

\* C6: create_branch with an internal code that a stored branch has answers
\* 400 and leaves the branches unchanged; with an unused internal code it
\* adds exactly one branch, which carries the four submitted fields.
C6_CreateBranchContract ==
    [][resp'.op = "create_branch" =>
         IF \E r \in branches : r.internal_code = resp'.arg.internal_code
         THEN resp'.status = 400 /\ branches' = branches
         ELSE /\ resp'.status = 200
              /\ Cardinality(branches' \ branches) = 1
              /\ branches \subseteq branches'
              /\ \A r \in branches' \ branches : BranchBody(r) = resp'.arg]_vars

\* C6 witness: a duplicate was rejected after two branches had been added.
C6_Witness ==
    /\ resp.op = "create_branch"
    /\ resp.status = 400
    /\ Cardinality(branches) = 2

\* The effect C7 describes for update_branch(id, b) between two states.
OverwritesNonEmpty(id, b) ==
    LET old == BranchWithId(branches, id)
    IN  /\ \E new \in branches' :
              /\ new.id = id
              /\ \A f \in BranchFields :
                    new[f] = IF b[f] = "" THEN old[f] ELSE b[f]
              /\ branches' \ {new} = branches \ {old}
        /\ UNCHANGED <<object_types, branch_objects, maintenance_plans,
                       completed_works>>

\* C7 as stated: update_branch on an existing branch overwrites exactly the
\* fields whose submitted value is non-empty and modifies nothing else.
C7_UpdateOverwritesNonEmpty ==
    [][(/\ resp'.op = "update_branch"
        /\ \E r \in branches : r.id = resp'.arg[1])
       => OverwritesNonEmpty(resp'.arg[1], resp'.arg[2])]_vars

\* TRUE iff another stored branch holds the internal code that b submits.
CodeHeldByOther(id, b) ==
    \E r \in branches : r.id # id /\ r.internal_code = b.internal_code

\* C7 amended: the overwrite happens unless the submitted internal code is
\* non-empty and held by another branch; in that case the request fails
\* with a store error (500) and nothing is modified.
C7_UpdateOverwritesUnlessDuplicate ==
    [][(/\ resp'.op = "update_branch"
        /\ \E r \in branches : r.id = resp'.arg[1])
       => IF /\ resp'.arg[2].internal_code # ""
             /\ CodeHeldByOther(resp'.arg[1], resp'.arg[2])
          THEN resp'.status = 500 /\ UNCHANGED store
          ELSE /\ resp'.status = 200
               /\ OverwritesNonEmpty(resp'.arg[1], resp'.arg[2])]_vars

\* C7 witness: an update succeeded that submitted an empty address and a
\* non-empty internal code; the stored address is still non-empty, the code
\* is the submitted one, and another branch is stored.
C7_Witness ==
    /\ resp.op = "update_branch"
    /\ resp.status = 200
    /\ resp.arg[2].address = ""
    /\ resp.arg[2].internal_code # ""
    /\ Cardinality(branches) = 2
    /\ \E r \in branches :
          /\ r.id = resp.arg[1]
          /\ r.address # ""
          /\ r.internal_code = resp.arg[2].internal_code

\* C10 as stated: a create_branch request that passed the existence check
\* and finds, when it commits, that a request it raced with has stored its
\* internal code is rejected with 400 and stores nothing.
C10_RaceLoserGetsConflict ==
    [][\A s \in Sessions :
          (/\ sess[s].pc = "create_checked"
           /\ sess'[s].pc = "idle"
           /\ Existing(sess[s].req.internal_code))
          => resp'.status = 400 /\ branches' = branches]_vars

---------------------------------------------------------------------------
(* Properties of the create endpoints. *)

BranchIds == {b.id : b \in branches}

ObjectIds == {o.id : o \in branch_objects}

\* C8: in every reachable state every stored BranchObject has the id of a
\* stored branch as its branch_id.
C8_ObjectBranchExists ==
    \A o \in branch_objects : o.branch_id \in BranchIds

\* C8 witness: an object is stored, and the last create_object request named
\* a branch that is not stored.
C8_Witness ==
    /\ branch_objects # {}
    /\ resp.op = "create_object"
    /\ resp.arg.branch_id \notin BranchIds

CreateOps == {"create_object", "create_maintenance_plan", "create_completed_work"}

\* C9 as stated: no create_object, create_maintenance_plan or
\* create_completed_work request ends in an error.
C9_CreatesNeverFail ==
    resp.op \in CreateOps => resp.status = 200

TableOf(op) ==
    IF op = "create_object" THEN branch_objects
    ELSE IF op = "create_maintenance_plan" THEN maintenance_plans
    ELSE completed_works

TableAfter(op) ==
    IF op = "create_object" THEN branch_objects'
    ELSE IF op = "create_maintenance_plan" THEN maintenance_plans'
    ELSE completed_works'

\* TRUE iff every reference the payload `a` of request `op` carries names a
\* stored row.
RefsStored(op, a) ==
    /\ a.branch_id \in BranchIds
    /\ IF op = "create_object"
       THEN a.object_type_id \in object_types
       ELSE a.object_id = NoneId \/ a.object_id \in ObjectIds

\* C9 amended: such a request adds exactly one row with the submitted
\* fields and returns it when every reference it carries (branch_id,
\* object_type_id, a non-null object_id) names a stored row; otherwise it
\* ends in a store error (500) and adds no row.  No other table changes.
C9_CreatesSucceedIffRefsStored ==
    [][resp'.op \in CreateOps =>
         /\ IF RefsStored(resp'.op, resp'.arg)
            THEN /\ resp'.status = 200
                 /\ resp'.body = resp'.arg
                 /\ TableOf(resp'.op) \subseteq TableAfter(resp'.op)
                 /\ Cardinality(TableAfter(resp'.op) \ TableOf(resp'.op)) = 1
                 /\ \A r \in TableAfter(resp'.op) \ TableOf(resp'.op) :
                       WithoutId(r) = resp'.arg
            ELSE /\ resp'.status = 500
                 /\ TableAfter(resp'.op) = TableOf(resp'.op)
         /\ \A op \in CreateOps \ {resp'.op} : TableAfter(op) = TableOf(op)
         /\ UNCHANGED <<object_types, branches>>]_vars

\* C9 witness: a maintenance plan that refers to a stored object was
\* created.
C9_Witness ==
    /\ resp.op = "create_maintenance_plan"
    /\ resp.status = 200
    /\ resp.arg.object_id \in ObjectIds
    /\ \E p \in maintenance_plans : WithoutId(p) = resp.arg

---------------------------------------------------------------------------
(* Properties of process_nlp_query. *)

\* The characters the claims call digits.
DigitChars == (48..57) \cup {178, 179, 185}

HasKeyword(q) ==
    \E kw \in {KwPlaniruetsya, KwPlany, KwVypolneno, KwSdelano} :
        Contains(kw, Lower(q))

RECURSIVE SumOf(_, _)
SumOf(f, S) ==
    IF S = {} THEN 0
    ELSE LET i == CHOOSE x \in S : TRUE IN f[i] + SumOf(f, S \ {i})

\* The integer whose decimal notation is the digit characters of q, in
\* the order they have in q.
ConcatValue(q) ==
    LET at == {i \in DOMAIN q : q[i] \in DigitChars}
    IN  SumOf([i \in at |-> (q[i] - 48) * 10 ^ Cardinality({j \in at : j > i})], at)

\* C1 as stated: a query with an intent keyword and at least one digit, on
\* a store that serves the read, returns "success" with the plans of the
\* extracted branch when it has a PLAN keyword, else with its completed
\* works.
C1_DigitQuerySucceeds ==
    (/\ resp.op = "nlp_query"
     /\ resp.arg.store_up
     /\ HasKeyword(resp.arg.query)
     /\ \E i \in DOMAIN resp.arg.query : resp.arg.query[i] \in 48..57)
    => /\ resp.body.status = "success"
       /\ resp.body.data =
            IF IsPlanQuery(resp.arg.query)
            THEN RowsOfBranch(maintenance_plans, ConcatValue(resp.arg.query))
            ELSE RowsOfBranch(completed_works, ConcatValue(resp.arg.query))

\* C2: whenever process_nlp_query calls a read handler, the branch id it
\* passes is the integer read off all digit characters of the query, from
\* left to right.
C2_FetchIdIsDigitConcat ==
    (resp.op = "nlp_query" /\ resp.fetch # <<>>)
    => resp.fetch[2] = ConcatValue(resp.arg.query)

\* C2 witness: the query has a "1", later a non-digit, later a "2", and no
\* other digit; the fetch was for branch 12.
C2_Witness ==
    /\ resp.op = "nlp_query"
    /\ resp.fetch # <<>>
    /\ resp.fetch[2] = 12
    /\ \E i, j, k \in DOMAIN resp.arg.query :
          /\ i < j /\ j < k
          /\ resp.arg.query[i] = 49
          /\ resp.arg.query[j] \notin DigitChars
          /\ resp.arg.query[k] = 50

\* C3: a query with none of the four keywords, or with no digit character,
\* is answered "not_found", without a data field and without a read.
C3_NotFound ==
    (/\ resp.op = "nlp_query"
     /\ \/ ~HasKeyword(resp.arg.query)
        \/ \A i \in DOMAIN resp.arg.query : resp.arg.query[i] \notin DigitChars)
    => /\ resp.status = 200
       /\ resp.body.status = "not_found"
       /\ "data" \notin DOMAIN resp.body
       /\ resp.fetch = <<>>

\* C3 witness: a query with a PLAN keyword and a COMPLETED keyword and no
\* digit was answered.
C3_Witness ==
    /\ resp.op = "nlp_query"
    /\ IsPlanQuery(resp.arg.query)
    /\ IsCompletedQuery(resp.arg.query)
    /\ DigitsOf(resp.arg.query) = <<>>
    /\ resp.body.status = "not_found"

\* C4: every query is answered with a payload whose status is success,
\* error or not_found, whatever the store does; when the read fails the
\* status is "error", with a message and without data.
C4_NeverPropagates ==
    resp.op = "nlp_query"
    => /\ resp.status = 200
       /\ resp.body.status \in {"success", "error", "not_found"}
       /\ "message" \in DOMAIN resp.body
       /\ (resp.fetch # <<>> /\ ~resp.arg.store_up)
            => /\ resp.body.status = "error"
               /\ "data" \notin DOMAIN resp.body

\* C4 witness: the read for a COMPLETED query failed.
C4_Witness ==
    /\ resp.op = "nlp_query"
    /\ ~resp.arg.store_up
    /\ resp.fetch # <<>>
    /\ resp.fetch[1] = "completed_works"
    /\ resp.body.status = "error"

=============================================================================
